---------------------------- MODULE Spec2Model ----------------------------
(***************************************************************************)
(* Model of the audio engine (src/src/audio-engine/src).                   *)
(*                                                                         *)
(* Numbers.  An f32 is modelled as a fixed-point integer: the f32 value x  *)
(* is the integer x * ONE.  Products are rounded to the nearest unit       *)
(* (FxMul), as f32 products are rounded to the nearest float.  NaN and the *)
(* infinities are outside the model.  Decibel values are whole decibels.   *)
(*                                                                         *)
(* Vectors.  A Vec<f32> or a slice &[f32] is a TLA+ sequence; the Rust     *)
(* index i is the TLA+ index i + 1.                                        *)
(*                                                                         *)
(* Frame size.  MAX_FRAME_SIZE is 4096 in the source (lib.rs:34).  The     *)
(* model is parametric in it and is checked with a small value, so that    *)
(* frames of every length from 0 to MAX_FRAME_SIZE + 1 can be enumerated   *)
(* sample by sample.                                                       *)
(*                                                                         *)
(* Analysis.  detect_bpm reads its samples only through the length of the  *)
(* slice and, per section, through the autocorrelation peaks of the onset  *)
(* curve that the FFT yields.  A section's contents are therefore given as *)
(* the lag of its best qualifying peak (or none); the FFT itself is not    *)
(* modelled.  Where a usize subtraction underflows, the outcome depends on *)
(* the build (overflow checks, width of usize) and every outcome is kept.  *)
(***************************************************************************)
EXTENDS Integers, Sequences, FiniteSets, TLC

VARIABLES
    proc,       \* the AudioProcessor (or NoProc before/without construction)
    status,     \* "new": not constructed, "ok": constructed, "error": new() returned Err
    twin,       \* a second AudioProcessor receiving the same calls (tempo arguments may differ)
    out,        \* the value returned by the last process_frame call on proc
    twin_out,   \* the value returned by the last process_frame call on twin
    call,       \* the last call on proc: [op |-> name, arg |-> its argument, arg2 |-> its
                \* second argument]; for process_frame the lengths of the two slices
    peak_before, \* last_peak_level of proc before its last process_frame call
    allocs,     \* number of times get_buffer, called by proc's process_frame, allocated a fresh buffer
    sets_left,  \* number of setter calls the run may still make
    bm,         \* a stand-alone BufferManager
    pool_call,  \* the last call on bm: [op, size |-> size asked for or length handed back,
                \*                        buffer |-> buffer returned or handed back]
    nops,       \* number of calls made on bm so far
    fd,         \* a stand-alone Fader
    fd_call,    \* the last call on fd: [op, position |-> argument of set_position,
                \*   size, left, right |-> arguments of process,
                \*   out_left, out_right |-> the two buffers after process]
    an,         \* the last call of the analysis functions, with its arguments and its result
    ps,         \* a stand-alone PitchShifter
    ps_call,    \* the last call on ps: [op, ratio |-> argument of set_pitch_ratio,
                \*   left, right |-> the buffers handed to process (left) or process_stereo,
                \*   out_left, out_right |-> the buffers after the call]
    pv,         \* a stand-alone PhaseVocoder
    pv_call,    \* the last call on pv: [op, ratio |-> argument of set_stretch_ratio,
                \*   input |-> argument of process, output |-> its result]
    eq,         \* a stand-alone Equalizer
    eq_call     \* the last call on eq: [op, db |-> argument of a gain setter,
                \*   buffer |-> argument of process, output |-> the buffer after it,
                \*   calls |-> number of process calls so far]

vars == <<proc, status, twin, out, twin_out, call, peak_before, allocs, sets_left,
          bm, pool_call, nops, fd, fd_call, an, ps, ps_call, pv, pv_call, eq, eq_call>>

procVars == <<proc, status, twin, out, twin_out, call, peak_before, allocs, sets_left>>

poolVars == <<bm, pool_call, nops>>

faderVars == <<fd, fd_call>>

shifterVars == <<ps, ps_call>>

vocoderVars == <<pv, pv_call>>

equalizerVars == <<eq, eq_call>>

\* the stand-alone Fader, the analysis functions and the stand-alone DSP units
soloVars == <<fd, fd_call, an, ps, ps_call, pv, pv_call, eq, eq_call>>

-----------------------------------------------------------------------------
(* Bounds of the model *)

\* lib.rs:34 has 4096; scaled down, see the header.
MAX_FRAME_SIZE == 3

\* valid frames processed per run
MaxFrames == 3

\* setter calls per run that also processes frames
MaxSets == 1

\* setter calls per run on a new processor
MaxApiSets == 2

\* Equalizer::process calls per run on the stand-alone equalizer
MaxEqCalls == 2

\* set_pitch_shift calls per run
MaxPitchSets == 4

\* get_buffer / return_buffer calls per run on the stand-alone BufferManager
MaxPoolOps == 5

-----------------------------------------------------------------------------
(* Fixed-point arithmetic standing for f32 *)

\* the integer that stands for the f32 value 1.0
ONE == 10000

Min(a, b) == IF a <= b THEN a ELSE b

Max(a, b) == IF a >= b THEN a ELSE b

\* f32::abs
Abs(a) == IF a >= 0 THEN a ELSE -a

\* a clamp that forgets the lower limit
Clamp_upper_only(x, lo, hi) == IF x > hi THEN hi ELSE x

\* f32::clamp(self, lo, hi) on finite values
Clamp(x, lo, hi) == IF x < lo THEN lo ELSE IF x > hi THEN hi ELSE x

\* the f32 product a * b, rounded to the nearest unit (half away from zero)
FxMul(a, b) ==
    LET p == a * b
    IN  IF p >= 0 THEN (p + ONE \div 2) \div ONE
                  ELSE -(((-p) + ONE \div 2) \div ONE)

\* vec![0.0; n]
Zeros(n) == [i \in 1..n |-> 0]

\* Vec::truncate(len)
Truncate(v, len) == IF Len(v) > len THEN SubSeq(v, 1, len) ELSE v

\* Vec::resize(new_len, value)
Resize(v, new_len, value) ==
    IF Len(v) >= new_len THEN SubSeq(v, 1, new_len)
    ELSE v \o [i \in 1..(new_len - Len(v)) |-> value]

-----------------------------------------------------------------------------
(* buffer_manager.rs *)

\* 10^(db / 20) for whole db in -12..12, in units of 1/ONE
DbTable ==
    <<2512, 2818, 3162, 3548, 3981, 4467, 5012, 5623, 6310, 7079, 7943, 8913,
      10000,
      11220, 12589, 14125, 15849, 17783, 19953, 22387, 25119, 28184, 31623, 35481, 39811>>

db_to_linear(db) == DbTable[db + 13]

BufferManager_new(buffer_size) ==
    [buffer_pool |-> [i \in 1..4 |-> Zeros(buffer_size)],
     buffer_size |-> buffer_size]

\* returns the manager after the call, the buffer handed out, and whether it
\* was freshly allocated (the is_empty branch)
get_buffer(self, size) ==
    LET empty  == Len(self.buffer_pool) = 0
        popped == IF empty
                  THEN Zeros(Max(self.buffer_size, size))
                  ELSE self.buffer_pool[Len(self.buffer_pool)]
        pool   == IF empty
                  THEN self.buffer_pool
                  ELSE SubSeq(self.buffer_pool, 1, Len(self.buffer_pool) - 1)
    IN  [self   |-> [self EXCEPT !.buffer_pool = pool],
         buffer |-> Resize(Truncate(popped, size), size, 0),
         fresh  |-> empty]

\* a return_buffer that pushes without looking at the pool's length
return_buffer_unbounded(self, buffer) ==
    [self EXCEPT !.buffer_pool = Append(self.buffer_pool, buffer)]

return_buffer(self, buffer) ==
    IF Len(self.buffer_pool) < 4
    THEN [self EXCEPT !.buffer_pool = Append(self.buffer_pool, buffer)]
    ELSE self

pool_size(self) == Len(self.buffer_pool)

-----------------------------------------------------------------------------
(* fader.rs *)

Fader_new == [position |-> 0]

Fader_set_position(self, position) ==
    [self EXCEPT !.position = Clamp(position, -ONE, ONE)]

Fader_get_position(self) == self.position

\* a t that forgets to shift the position: position * 0.5
FaderT_unshifted(self) == FxMul(self.position, ONE \div 2)

\* t = (position + 1.0) * 0.5
FaderT(self) == FxMul(self.position + ONE, ONE \div 2)

\* a left gain that falls linearly: 1.0 - t
get_left_gain_linear(self) == 10000 - ((self.position + 10000) * 5000) \div 10000

get_left_gain(self) == ONE - FxMul(FaderT(self), FaderT(self))

get_right_gain(self) == FxMul(FaderT(self), FaderT(self))

Fader_reset(self) == [self EXCEPT !.position = 0]

\* a process that scales every sample of both buffers, whatever size says
Fader_process_whole(self, left, right, size) ==
    IF self.position = 0
    THEN [left |-> left, right |-> right]
    ELSE LET t == ((self.position + 10000) * 5000) \div 10000
         IN  [left  |-> [i \in 1..Len(left) |->
                            (left[i] * (10000 - (t * t) \div 10000)) \div 10000],
              right |-> [i \in 1..Len(right) |->
                            (right[i] * ((t * t) \div 10000)) \div 10000]]

\* returns the two buffers after the in-place scaling
Fader_process(self, left, right, size) ==
    IF self.position = 0
    THEN [left |-> left, right |-> right]
    ELSE LET t          == FxMul(self.position + ONE, ONE \div 2)
             left_gain  == ONE - FxMul(t, t)
             right_gain == FxMul(t, t)
             n          == Min(Min(size, Len(left)), Len(right))
         IN  [left  |-> [i \in 1..Len(left) |->
                            IF i <= n THEN FxMul(left[i], left_gain) ELSE left[i]],
              right |-> [i \in 1..Len(right) |->
                            IF i <= n THEN FxMul(right[i], right_gain) ELSE right[i]]]

-----------------------------------------------------------------------------
(* pitch_shifter.rs *)

\* 2^(s / 12) for s in -12..12, in units of 1/ONE
SemitoneTable ==
    <<5000, 5297, 5612, 5946, 6300, 6674, 7071, 7492, 7937, 8409, 8909, 9439,
      10000,
      10595, 11225, 11892, 12599, 13348, 14142, 14983, 15874, 16818, 17818, 18877, 20000>>

\* 2^((s + 1/2) / 12) for s in -13..12: the ratios at which round(log2(r) * 12)
\* steps from s to s + 1
SemitoneEdge ==
    <<4858, 5147, 5453, 5777, 6120, 6484, 6870, 7278, 7711, 8170, 8655, 9170, 9715,
      10293, 10905, 11554, 12241, 12968, 13740, 14557, 15422, 16339, 17311, 18340,
      19431, 20586>>

\* 2.0_f32.powf(semitones / 12.0) for a whole number of semitones in -12..12
semitones_to_ratio(semitones) == SemitoneTable[semitones + 13]

\* (ratio.log2() * 12.0).round() for a ratio in [0.5, 2.0]
ratio_to_semitones(ratio) ==
    CHOOSE s \in -12..12 : SemitoneEdge[s + 13] <= ratio /\ ratio < SemitoneEdge[s + 14]

\* the scratch buffer (fft_size * 2 zeros) is never read or written after
\* construction and is left out
PitchShifter_new(sample_rate, fft_size) ==
    [sample_rate |-> sample_rate, fft_size |-> fft_size,
     pitch_ratio |-> ONE, read_pos |-> 0]

\* a set_pitch_ratio whose upper limit is 1.5
set_pitch_ratio_narrow(self, ratio) ==
    [self EXCEPT !.pitch_ratio = Clamp(ratio, ONE \div 2, (3 * ONE) \div 2)]

set_pitch_ratio(self, ratio) ==
    [self EXCEPT !.pitch_ratio = Clamp(ratio, ONE \div 2, 2 * ONE)]

get_pitch_ratio(self) == self.pitch_ratio

\* linear-interpolation resampling of a buffer onto itself
Resample(self, buffer) ==
    [k \in 1..Len(buffer) |->
        LET i       == k - 1
            idx     == i * self.pitch_ratio
            int_idx == idx \div ONE
            frac    == idx - int_idx * ONE
        IN  IF int_idx + 1 < Len(buffer)
            THEN FxMul(buffer[int_idx + 1], ONE - frac) + FxMul(buffer[int_idx + 2], frac)
            ELSE IF int_idx < Len(buffer)
            THEN buffer[int_idx + 1]
            ELSE 0]

\* |pitch_ratio - 1.0| < 0.001
PitchIsUnity(self) == Abs(self.pitch_ratio - ONE) < ONE \div 1000

\* a shifter that keeps a read position across calls
PitchShifter_after_process_advancing(self, buffer) ==
    [self EXCEPT !.read_pos = self.read_pos + Len(buffer)]

\* the shifter after process or process_stereo: they take &mut self, but
\* neither they nor _resample (&self) write a field
PitchShifter_after_process(self, buffer) == self

PitchShifter_process(self, buffer) ==
    IF PitchIsUnity(self) THEN buffer ELSE Resample(self, buffer)

PitchShifter_process_stereo(self, left, right) ==
    IF PitchIsUnity(self)
    THEN [left |-> left, right |-> right]
    ELSE [left |-> Resample(self, left), right |-> Resample(self, right)]

-----------------------------------------------------------------------------
(* phase_vocoder.rs *)

\* the FFT planner, the window and the phase history are never read or written
\* after construction and are left out
PhaseVocoder_new(fft_size) ==
    [fft_size |-> fft_size, hop_size |-> fft_size \div 4,
     grain_position |-> 0, stretch_ratio |-> ONE]

set_stretch_ratio(self, ratio) ==
    [self EXCEPT !.stretch_ratio = Clamp(ratio, ONE \div 2, 2 * ONE)]

get_stretch_ratio(self) == self.stretch_ratio

\* a quotient that is cut off, not rounded up
CeilDiv_floor(a, b) == a \div b

\* ceil(a / b) for a >= 0, b > 0
CeilDiv(a, b) == (a + b - 1) \div b

PhaseVocoder_process(self, input) ==
    IF Abs(self.stretch_ratio - ONE) < ONE \div 1000
    THEN input
    ELSE LET input_len  == Len(input)
             output_len == CeilDiv(input_len * ONE, self.stretch_ratio)
         IN  [k \in 1..output_len |->
                LET i       == k - 1
                    src_pos == i * self.stretch_ratio
                    src_idx == src_pos \div ONE
                    frac    == src_pos - src_idx * ONE
                IN  IF src_idx + 1 < input_len
                    THEN FxMul(input[src_idx + 1], ONE - frac) + FxMul(input[src_idx + 2], frac)
                    ELSE IF src_idx < input_len
                    THEN input[src_idx + 1]
                    ELSE 0]

\* copies the processed samples back over the first samples of each buffer
PhaseVocoder_process_stereo(self, left, right) ==
    LET left_processed  == PhaseVocoder_process(self, left)
        right_processed == PhaseVocoder_process(self, right)
    IN  [left  |-> [i \in 1..Len(left) |->
                       IF i <= Len(left_processed) THEN left_processed[i] ELSE left[i]],
         right |-> [i \in 1..Len(right) |->
                       IF i <= Len(right_processed) THEN right_processed[i] ELSE right[i]]]

-----------------------------------------------------------------------------
(* equalizer.rs *)

SimpleFilter_new(gain) == [gain |-> db_to_linear(gain), state |-> 0]

\* the loop of SimpleFilter::process from sample k on: acc holds the samples
\* already written, state the running filter state
RECURSIVE FilterLoop(_, _, _, _, _, _)
FilterLoop(buffer, k, gain, alpha, state, acc) ==
    IF k > Len(buffer)
    THEN [state |-> state, buffer |-> acc]
    ELSE LET sample == FxMul(buffer[k], gain)
             next   == FxMul(state, alpha) + FxMul(sample, ONE - alpha)
         IN  FilterLoop(buffer, k + 1, gain, alpha, next, Append(acc, next))

\* returns the filter after the call and the buffer it rewrote in place
SimpleFilter_process(self, buffer, alpha) ==
    LET r == FilterLoop(buffer, 1, self.gain, alpha, self.state, <<>>)
    IN  [self |-> [self EXCEPT !.state = r.state], buffer |-> r.buffer]

\* a set_gain that also clears the filter memory
SimpleFilter_set_gain_clearing(self, db) == [gain |-> db_to_linear(db), state |-> 0]

SimpleFilter_set_gain(self, db) == [self EXCEPT !.gain = db_to_linear(db)]

Equalizer_new ==
    [low_band  |-> SimpleFilter_new(0),
     mid_band  |-> SimpleFilter_new(0),
     high_band |-> SimpleFilter_new(0),
     low_gain_db |-> 0, mid_gain_db |-> 0, high_gain_db |-> 0]

\* a process that starts every call from cleared filter memories
Equalizer_process_restarting(self, buffer) ==
    IF Len(buffer) = 0
    THEN [self |-> self, buffer |-> buffer]
    ELSE LET lo == FilterLoop(buffer, 1, self.low_band.gain, 9500, 0, <<>>)
             mi == FilterLoop(lo.buffer, 1, self.mid_band.gain, 9000, 0, <<>>)
             hi == FilterLoop(mi.buffer, 1, self.high_band.gain, 8500, 0, <<>>)
         IN  [self   |-> [self EXCEPT !.low_band.state = lo.state,
                                      !.mid_band.state = mi.state,
                                      !.high_band.state = hi.state],
              buffer |-> hi.buffer]

\* alpha 0.95, 0.9 and 0.85 for the low, mid and high band
Equalizer_process(self, buffer) ==
    IF Len(buffer) = 0
    THEN [self |-> self, buffer |-> buffer]
    ELSE LET lo == SimpleFilter_process(self.low_band, buffer, (95 * ONE) \div 100)
             mi == SimpleFilter_process(self.mid_band, lo.buffer, (90 * ONE) \div 100)
             hi == SimpleFilter_process(self.high_band, mi.buffer, (85 * ONE) \div 100)
         IN  [self   |-> [self EXCEPT !.low_band = lo.self, !.mid_band = mi.self,
                                      !.high_band = hi.self],
              buffer |-> hi.buffer]

set_low_gain(self, db) ==
    LET d == Clamp(db, -12, 12)
    IN  [self EXCEPT !.low_gain_db = d, !.low_band = SimpleFilter_set_gain(self.low_band, d)]

set_mid_gain(self, db) ==
    LET d == Clamp(db, -12, 12)
    IN  [self EXCEPT !.mid_gain_db = d, !.mid_band = SimpleFilter_set_gain(self.mid_band, d)]

set_high_gain(self, db) ==
    LET d == Clamp(db, -12, 12)
    IN  [self EXCEPT !.high_gain_db = d, !.high_band = SimpleFilter_set_gain(self.high_band, d)]

Equalizer_reset(self) == set_high_gain(set_mid_gain(set_low_gain(self, 0), 0), 0)

-----------------------------------------------------------------------------
(* lib.rs: AudioProcessor *)

NoProc == [none |-> TRUE]

\* a list of FFT sizes that lacks the largest one
FftSizes_short == {256, 512, 1024, 2048}

FftSizes == {256, 512, 1024, 2048, 4096}

\* Result<AudioProcessor, JsValue>: ok, and the processor or the error text
AudioProcessor_new(sample_rate, fft_size) ==
    IF sample_rate < 8000 \/ sample_rate > 192000
    THEN [ok |-> FALSE, err |-> "Invalid sample rate", proc |-> NoProc]
    ELSE IF fft_size \notin FftSizes
    THEN [ok |-> FALSE, err |-> "FFT size must be 256, 512, 1024, 2048, or 4096",
          proc |-> NoProc]
    ELSE [ok |-> TRUE, err |-> "",
          proc |-> [sample_rate      |-> sample_rate,
                    fft_size         |-> fft_size,
                    phase_vocoder    |-> PhaseVocoder_new(fft_size),
                    pitch_shifter    |-> PitchShifter_new(sample_rate, fft_size),
                    equalizer        |-> Equalizer_new,
                    fader            |-> Fader_new,
                    buffer_manager   |-> BufferManager_new(MAX_FRAME_SIZE * 2),
                    input_gain       |-> ONE,
                    master_volume    |-> ONE,
                    frames_processed |-> 0,
                    last_peak_level  |-> 0]]

\* min(input_left.len(), input_right.len())
FrameSize(input_left, input_right) == Min(Len(input_left), Len(input_right))

\* an early return that also refuses a frame of exactly MAX_FRAME_SIZE samples
FrameRejected_strict(frame_size) == frame_size = 0 \/ frame_size >= MAX_FRAME_SIZE

\* an early return that lets an empty frame through
FrameRejected_oversize_only(frame_size) == frame_size > MAX_FRAME_SIZE

\* the early return of process_frame
FrameRejected(frame_size) == frame_size = 0 \/ frame_size > MAX_FRAME_SIZE

\* a stage 5 loop that starts from the peak it is given and looks at the left
\* samples only
RECURSIVE PeakLoop_left_only(_, _, _, _)
PeakLoop_left_only(output, k, n, peak) ==
    IF k > n
    THEN peak
    ELSE PeakLoop_left_only(output, k + 1, n, Max(peak, Abs(output[2 * k - 1])))

\* the stage 5 loop from sample k on: the running peak
RECURSIVE PeakLoop(_, _, _, _)
PeakLoop(output, k, n, peak) ==
    IF k > n
    THEN peak
    ELSE PeakLoop(output, k + 1, n,
                  Max(Max(peak, Abs(output[2 * k - 1])), Abs(output[2 * k])))

\* a fetch_add that loses the update
fetch_add_lost(count, val) == count

\* AtomicU32::fetch_add: the value stored.  It wraps at 2^32, which no run of
\* at most MaxFrames frames reaches.
fetch_add(count, val) == count + val

\* returns the processor after the call, the boxed slice returned, and the
\* number of get_buffer calls that had to allocate
process_frame(self, input_left, input_right) ==
    LET frame_size == FrameSize(input_left, input_right)
    IN  IF FrameRejected(frame_size)
        THEN [self |-> self, output |-> <<>>, fresh |-> 0]
        ELSE
        LET g1     == get_buffer(self.buffer_manager, frame_size)
            g2     == get_buffer(g1.self, frame_size)
            \* stage 1: input gain, written over the first frame_size samples
            left1  == [i \in 1..Len(g1.buffer) |->
                          IF i <= frame_size THEN FxMul(input_left[i], self.input_gain)
                                             ELSE g1.buffer[i]]
            right1 == [i \in 1..Len(g2.buffer) |->
                          IF i <= frame_size THEN FxMul(input_right[i], self.input_gain)
                                             ELSE g2.buffer[i]]
            \* stage 2: fader
            s2     == Fader_process(self.fader, left1, right1, frame_size)
            \* stage 3: pitch shifter
            s3     == PitchShifter_process_stereo(self.pitch_shifter, s2.left, s2.right)
            \* stage 4: the one equalizer, on the left and then on the right channel
            eqL    == Equalizer_process(self.equalizer, s3.left)
            eqR    == Equalizer_process(eqL.self, s3.right)
            \* stage 5: master volume, interleaving and peak
            output == [j \in 1..(frame_size * 2) |->
                          IF j % 2 = 1
                          THEN FxMul(eqL.buffer[(j + 1) \div 2], self.master_volume)
                          ELSE FxMul(eqR.buffer[j \div 2], self.master_volume)]
            peak   == PeakLoop(output, 1, frame_size, 0)
        IN  [self   |-> [self EXCEPT !.buffer_manager   = g2.self,
                                     !.equalizer        = eqR.self,
                                     !.last_peak_level  = peak,
                                     !.frames_processed = fetch_add(@, 1)],
             output |-> output,
             fresh  |-> (IF g1.fresh THEN 1 ELSE 0) + (IF g2.fresh THEN 1 ELSE 0)]

set_input_gain(self, gain) == [self EXCEPT !.input_gain = Clamp(gain, 0, 2 * ONE)]

get_input_gain(self) == self.input_gain

set_master_volume(self, volume) == [self EXCEPT !.master_volume = Clamp(volume, 0, 2 * ONE)]

get_master_volume(self) == self.master_volume

\* a set_tempo_ratio that also drives the pitch shifter
set_tempo_ratio_coupled(self, ratio) ==
    [self EXCEPT !.phase_vocoder =
                     set_stretch_ratio(self.phase_vocoder, Clamp(ratio, ONE \div 2, 2 * ONE)),
                 !.pitch_shifter = set_pitch_ratio(self.pitch_shifter, ratio)]

set_tempo_ratio(self, ratio) ==
    [self EXCEPT !.phase_vocoder =
                     set_stretch_ratio(self.phase_vocoder, Clamp(ratio, ONE \div 2, 2 * ONE))]

get_tempo_ratio(self) == get_stretch_ratio(self.phase_vocoder)

set_pitch_shift(self, semitones) ==
    [self EXCEPT !.pitch_shifter =
                     set_pitch_ratio(self.pitch_shifter,
                                     semitones_to_ratio(Clamp(semitones, -12, 12)))]

get_pitch_shift(self) == ratio_to_semitones(get_pitch_ratio(self.pitch_shifter))

set_fader_position(self, position) ==
    [self EXCEPT !.fader = Fader_set_position(self.fader, position)]

get_fader_position(self) == Fader_get_position(self.fader)

AP_set_high_gain(self, db) == [self EXCEPT !.equalizer = set_high_gain(self.equalizer, db)]

get_high_gain(self) == self.equalizer.high_gain_db

AP_set_mid_gain(self, db) == [self EXCEPT !.equalizer = set_mid_gain(self.equalizer, db)]

get_mid_gain(self) == self.equalizer.mid_gain_db

AP_set_low_gain(self, db) == [self EXCEPT !.equalizer = set_low_gain(self.equalizer, db)]

get_low_gain(self) == self.equalizer.low_gain_db

-----------------------------------------------------------------------------
(* Inputs *)

\* (left, right) slices handed to process_frame: frame size 0, 1 (quiet),
\* MAX_FRAME_SIZE (loud) and MAX_FRAME_SIZE + 1, the two slices of unequal length
Frames ==
    { << <<>>, <<ONE>> >>,
      << <<ONE \div 10, ONE>>, <<-(ONE \div 5)>> >>,
      << [i \in 1..MAX_FRAME_SIZE |-> IF i = 1 THEN ONE ELSE -(ONE \div 2)],
         [i \in 1..(MAX_FRAME_SIZE + 1) |-> IF i = 2 THEN -ONE ELSE ONE \div 4] >>,
      << [i \in 1..(MAX_FRAME_SIZE + 2) |-> ONE],
         [i \in 1..(MAX_FRAME_SIZE + 1) |-> ONE] >> }

\* Arguments of the setters in runs that also process frames: for the gains,
\* the ratios and the position one argument outside the range and one inside
\* it, for each equalizer band one argument.
RunGainArgs == {-ONE, 3 * ONE}

RunVolumeArgs == {ONE \div 2, 3 * ONE}

RunTempoArgs == {ONE \div 4, (3 * ONE) \div 2}

\* arguments of the twin's set_tempo_ratio
TwinTempoArgs == {ONE, 3 * ONE}

RunSemitoneArgs == {-13, 7}

RunFaderArgs == {-2 * ONE, ONE \div 2}

RunLowArgs == {6}

RunMidArgs == {20}

RunHighArgs == {-20}

\* Arguments of the setters called on a new processor: below, inside and
\* above each range.
GainArgs == {-ONE, ONE \div 2, 3 * ONE}

TempoArgs == {ONE \div 4, (3 * ONE) \div 2, 3 * ONE}

SemitoneArgs == {-13, 7, 13}

FaderArgs == {-2 * ONE, ONE \div 2, 2 * ONE}

DbArgs == {-20, 6, 20}

\* arguments of BufferManager::new
PoolBufferSizes == {1, 2}

\* sizes asked of get_buffer
GetSizes == {0, 1, 3}

\* buffers a caller hands to return_buffer: any length, zero or overwritten
CallerBuffers == { <<>>, <<ONE>>, <<0, 0>>, <<ONE, 0, -ONE>> }

\* arguments of AudioProcessor::new
SampleRates == {7999, 8000, 192000, 192001}

FftArgs == {0, 256, 1000, 4096, 8192}

-----------------------------------------------------------------------------
(* The processor driven through its public methods *)

NoCall == [op |-> "none", arg |-> 0, arg2 |-> 0]

NoPoolCall == [op |-> "none", size |-> 0, buffer |-> <<>>]

\* the stand-alone BufferManager while the processor is driven
IdlePool ==
    /\ bm = BufferManager_new(1)
    /\ pool_call = NoPoolCall
    /\ nops = 0

NoFaderCall ==
    [op |-> "none", position |-> 0, size |-> 0, left |-> <<>>, right |-> <<>>,
     out_left |-> <<>>, out_right |-> <<>>]

NoAnalysis == [op |-> "none"]

NoShifterCall ==
    [op |-> "none", ratio |-> 0, left |-> <<>>, right |-> <<>>,
     out_left |-> <<>>, out_right |-> <<>>]

NoVocoderCall == [op |-> "none", ratio |-> 0, input |-> <<>>, output |-> <<>>]

NoEqualizerCall ==
    [op |-> "none", db |-> 0, buffer |-> <<>>, output |-> <<>>, calls |-> 0]

\* the stand-alone Fader and the analysis functions while something else is driven
IdleSolo ==
    /\ fd = Fader_new
    /\ fd_call = NoFaderCall
    /\ an = NoAnalysis
    /\ ps = PitchShifter_new(48000, 1024)
    /\ ps_call = NoShifterCall
    /\ pv = PhaseVocoder_new(1024)
    /\ pv_call = NoVocoderCall
    /\ eq = Equalizer_new
    /\ eq_call = NoEqualizerCall

Init ==
    /\ status = "ok"
    /\ proc = AudioProcessor_new(48000, 1024).proc
    /\ twin = AudioProcessor_new(48000, 1024).proc
    /\ out = <<>>
    /\ twin_out = <<>>
    /\ call = NoCall
    /\ peak_before = 0
    /\ allocs = 0
    /\ sets_left = MaxSets
    /\ IdlePool
    /\ IdleSolo

ProcessFrame(input_left, input_right) ==
    LET n  == FrameSize(input_left, input_right)
        r1 == process_frame(proc, input_left, input_right)
        r2 == process_frame(twin, input_left, input_right)
    IN  /\ status = "ok"
        /\ FrameRejected(n) \/ proc.frames_processed < MaxFrames
        /\ proc' = r1.self
        /\ out' = r1.output
        /\ twin' = r2.self
        /\ twin_out' = r2.output
        /\ peak_before' = proc.last_peak_level
        /\ allocs' = allocs + r1.fresh
        /\ call' = [op |-> "process_frame", arg |-> Len(input_left), arg2 |-> Len(input_right)]
        /\ UNCHANGED <<status, sets_left, poolVars, soloVars>>

\* what every setter call does besides changing its parameter
SetterCall(name, arg) ==
    /\ status = "ok"
    /\ sets_left > 0
    /\ sets_left' = sets_left - 1
    /\ call' = [op |-> name, arg |-> arg, arg2 |-> 0]
    /\ UNCHANGED <<status, out, twin_out, peak_before, allocs, poolVars, soloVars>>

SetInputGain(gain) ==
    /\ proc' = set_input_gain(proc, gain)
    /\ twin' = set_input_gain(twin, gain)
    /\ SetterCall("set_input_gain", gain)

SetMasterVolume(volume) ==
    /\ proc' = set_master_volume(proc, volume)
    /\ twin' = set_master_volume(twin, volume)
    /\ SetterCall("set_master_volume", volume)

\* the twin is given its own ratio
SetTempoRatio(ratio, twin_ratio) ==
    /\ proc' = set_tempo_ratio(proc, ratio)
    /\ twin' = set_tempo_ratio(twin, twin_ratio)
    /\ SetterCall("set_tempo_ratio", ratio)

SetPitchShift(semitones) ==
    /\ proc' = set_pitch_shift(proc, semitones)
    /\ twin' = set_pitch_shift(twin, semitones)
    /\ SetterCall("set_pitch_shift", semitones)

SetFaderPosition(position) ==
    /\ proc' = set_fader_position(proc, position)
    /\ twin' = set_fader_position(twin, position)
    /\ SetterCall("set_fader_position", position)

SetHighGain(db) ==
    /\ proc' = AP_set_high_gain(proc, db)
    /\ twin' = AP_set_high_gain(twin, db)
    /\ SetterCall("set_high_gain", db)

SetMidGain(db) ==
    /\ proc' = AP_set_mid_gain(proc, db)
    /\ twin' = AP_set_mid_gain(twin, db)
    /\ SetterCall("set_mid_gain", db)

SetLowGain(db) ==
    /\ proc' = AP_set_low_gain(proc, db)
    /\ twin' = AP_set_low_gain(twin, db)
    /\ SetterCall("set_low_gain", db)

Next ==
    \/ \E f \in Frames : ProcessFrame(f[1], f[2])
    \/ \E g \in RunGainArgs : SetInputGain(g)
    \/ \E v \in RunVolumeArgs : SetMasterVolume(v)
    \/ \E r \in RunTempoArgs, t \in TwinTempoArgs : SetTempoRatio(r, t)
    \/ \E s \in RunSemitoneArgs : SetPitchShift(s)
    \/ \E p \in RunFaderArgs : SetFaderPosition(p)
    \/ \E d \in RunHighArgs : SetHighGain(d)
    \/ \E d \in RunMidArgs : SetMidGain(d)
    \/ \E d \in RunLowArgs : SetLowGain(d)

Spec == Init /\ [][Next]_vars

-----------------------------------------------------------------------------
(* A new processor and its setters *)

InitApi ==
    /\ status = "new"
    /\ proc = NoProc
    /\ twin = NoProc
    /\ out = <<>>
    /\ twin_out = <<>>
    /\ call = NoCall
    /\ peak_before = 0
    /\ allocs = 0
    /\ sets_left = MaxApiSets
    /\ IdlePool
    /\ IdleSolo

New(sample_rate, fft_size) ==
    LET r == AudioProcessor_new(sample_rate, fft_size)
    IN  /\ status = "new"
        /\ status' = IF r.ok THEN "ok" ELSE "error"
        /\ proc' = r.proc
        /\ twin' = r.proc
        /\ call' = [op |-> "new", arg |-> sample_rate, arg2 |-> fft_size]
        /\ UNCHANGED <<out, twin_out, peak_before, allocs, sets_left, poolVars, soloVars>>

NextApi ==
    \/ \E sr \in SampleRates, fft \in FftArgs : New(sr, fft)
    \/ \E g \in GainArgs : SetInputGain(g)
    \/ \E v \in GainArgs : SetMasterVolume(v)
    \/ \E r \in TempoArgs : SetTempoRatio(r, r)
    \/ \E s \in SemitoneArgs : SetPitchShift(s)
    \/ \E p \in FaderArgs : SetFaderPosition(p)
    \/ \E d \in DbArgs : SetHighGain(d)
    \/ \E d \in DbArgs : SetMidGain(d)
    \/ \E d \in DbArgs : SetLowGain(d)

SpecApi == InitApi /\ [][NextApi]_vars

-----------------------------------------------------------------------------
(* A BufferManager driven through get_buffer and return_buffer *)

\* no processor is constructed in these runs
InitPool ==
    /\ status = "new"
    /\ proc = NoProc
    /\ twin = NoProc
    /\ out = <<>>
    /\ twin_out = <<>>
    /\ call = NoCall
    /\ peak_before = 0
    /\ allocs = 0
    /\ sets_left = 0
    /\ \E buffer_size \in PoolBufferSizes : bm = BufferManager_new(buffer_size)
    /\ pool_call = NoPoolCall
    /\ nops = 0
    /\ IdleSolo

GetBuffer(size) ==
    LET g == get_buffer(bm, size)
    IN  /\ nops < MaxPoolOps
        /\ nops' = nops + 1
        /\ bm' = g.self
        /\ pool_call' = [op |-> "get_buffer", size |-> size, buffer |-> g.buffer]
        /\ UNCHANGED <<procVars, soloVars>>

ReturnBuffer(buffer) ==
    /\ nops < MaxPoolOps
    /\ nops' = nops + 1
    /\ bm' = return_buffer(bm, buffer)
    /\ pool_call' = [op |-> "return_buffer", size |-> Len(buffer), buffer |-> buffer]
    /\ UNCHANGED <<procVars, soloVars>>

NextPool ==
    \/ \E size \in GetSizes : GetBuffer(size)
    \/ \E buffer \in CallerBuffers : ReturnBuffer(buffer)

SpecPool == InitPool /\ [][NextPool]_vars

-----------------------------------------------------------------------------
(* Properties of process_frame (specification Spec) *)

\* the last call on proc was process_frame
FrameCalled == call.op = "process_frame"

\* n = min(len(left), len(right)) of the last process_frame call
CalledFrameSize == IF call.arg <= call.arg2 THEN call.arg ELSE call.arg2

\* the last call on proc was process_frame with 1 <= n <= MAX_FRAME_SIZE
ValidFrameCalled ==
    FrameCalled /\ 1 <= CalledFrameSize /\ CalledFrameSize <= MAX_FRAME_SIZE

\* C1: whatever setters and frames came before, process_frame returns exactly
\* 2n samples when 1 <= n <= MAX_FRAME_SIZE and an empty result when n = 0 or
\* n > MAX_FRAME_SIZE, n being the shorter of the two input lengths.
C1_OutputLength ==
    FrameCalled =>
        Len(out) = (IF ValidFrameCalled THEN 2 * CalledFrameSize ELSE 0)

\* a frame of exactly MAX_FRAME_SIZE samples, its slices of unequal length,
\* answered with 2 * MAX_FRAME_SIZE samples after a setter and an earlier frame
C1_Witness ==
    /\ FrameCalled
    /\ call.arg = MAX_FRAME_SIZE
    /\ call.arg2 = MAX_FRAME_SIZE + 1
    /\ Len(out) = 2 * MAX_FRAME_SIZE
    /\ proc.frames_processed >= 2
    /\ sets_left < MaxSets

\* C2: every valid process_frame call puts its two working buffers back, so
\* the processor's pool holds 4 buffers between any two frames.
C2_PoolRestored ==
    status = "ok" => pool_size(proc.buffer_manager) = 4

\* C3: process_frame's get_buffer calls always find the pool non-empty: none
\* of them takes the allocating branch.
C3_NoAllocation ==
    allocs = 0

C9_PeakOfThisFrame ==
    ValidFrameCalled =>
        /\ \A j \in 1..Len(out) : Abs(out[j]) <= proc.last_peak_level
        /\ \E j \in 1..Len(out) : Abs(out[j]) = proc.last_peak_level

\* a quieter frame after a louder one: the peak went down
C9_Witness ==
    /\ ValidFrameCalled
    /\ proc.frames_processed >= 2
    /\ 0 < proc.last_peak_level
    /\ proc.last_peak_level < peak_before

\* a processor with its tempo ratio blanked out
WithoutTempo(p) == [p EXCEPT !.phase_vocoder.stretch_ratio = 0]

-----------------------------------------------------------------------------
(* Properties of the buffer pool (specification SpecPool) *)

\* C4: whatever the order of get_buffer and return_buffer calls, the pool never
\* holds more than 4 buffers, and a return_buffer call on a pool of 4 drops the
\* buffer: the pool is the same after the call.
C4_PoolCapacity ==
    [][ /\ pool_size(bm) <= 4
        /\ pool_size(bm') <= 4
        /\ (pool_call'.op = "return_buffer" /\ pool_size(bm) = 4) => bm' = bm ]_vars

\* a buffer handed to the full pool of a new manager, without any get_buffer
\* before it, and not kept
C4_Witness ==
    /\ nops = 1
    /\ pool_call.op = "return_buffer"
    /\ pool_call.size > 0
    /\ pool_size(bm) = 4
    /\ \A i \in 1..pool_size(bm) : bm.buffer_pool[i] # pool_call.buffer

\* C5: get_buffer(size) always hands out exactly size samples, all of them 0.0,
\* also after buffers of any length and content were returned.
C5_ZeroedBuffer ==
    pool_call.op = "get_buffer" =>
        /\ Len(pool_call.buffer) = pool_call.size
        /\ \A i \in 1..Len(pool_call.buffer) : pool_call.buffer[i] = 0

-----------------------------------------------------------------------------
(* Properties of the constructor and the setters (specification SpecApi) *)

\* r is a clamped to [lo, hi]
ClampedTo(r, a, lo, hi) ==
    /\ lo <= r
    /\ r <= hi
    /\ (lo <= a /\ a <= hi) => r = a
    /\ a < lo => r = lo
    /\ a > hi => r = hi

C7_Construction ==
    call.op = "new" =>
        IF \/ call.arg < 8000
           \/ call.arg > 192000
           \/ call.arg2 \notin {256, 512, 1024, 2048, 4096}
        THEN /\ status = "error"
             /\ proc = NoProc
        ELSE /\ status = "ok"
             /\ get_input_gain(proc) = ONE
             /\ get_master_volume(proc) = ONE
             /\ get_tempo_ratio(proc) = ONE
             /\ get_pitch_shift(proc) = 0
             /\ get_fader_position(proc) = 0
             /\ get_low_gain(proc) = 0
             /\ get_mid_gain(proc) = 0
             /\ get_high_gain(proc) = 0
             /\ proc.frames_processed = 0
             /\ proc.last_peak_level = 0

\* the largest sample rate and the largest FFT size accepted
C7_Witness ==
    /\ call.op = "new"
    /\ call.arg = 192000
    /\ call.arg2 = 4096
    /\ status = "ok"
    /\ proc # NoProc

-----------------------------------------------------------------------------
(* Two processors given the same right channel and their own left channels
   (specification SpecChan) *)

\* one channel's samples of a frame
ChanSamples == { <<0, 0>>, <<ONE, -(ONE \div 2)>> }

ProcessFramePair(input_left, twin_left, input_right) ==
    LET r1 == process_frame(proc, input_left, input_right)
        r2 == process_frame(twin, twin_left, input_right)
    IN  /\ status = "ok"
        /\ proc.frames_processed < MaxFrames
        /\ proc' = r1.self
        /\ out' = r1.output
        /\ twin' = r2.self
        /\ twin_out' = r2.output
        /\ peak_before' = proc.last_peak_level
        /\ allocs' = allocs + r1.fresh
        /\ call' = [op |-> "process_frame", arg |-> Len(input_left), arg2 |-> Len(input_right)]
        /\ UNCHANGED <<status, sets_left, poolVars, soloVars>>

NextChan ==
    \E l \in ChanSamples, t \in ChanSamples, r \in ChanSamples : ProcessFramePair(l, t, r)

SpecChan == Init /\ [][NextChan]_vars

\* C11: the right-channel samples returned (odd indices of the interleaved
\* output, counted from 0) do not depend on the left-channel input: two
\* processors fed the same right channel return the same right samples, in
\* this frame and in every later one.
C11_RightIgnoresLeft ==
    /\ Len(out) = Len(twin_out)
    /\ \A k \in 1..(Len(out) \div 2) : out[2 * k] = twin_out[2 * k]

-----------------------------------------------------------------------------
(* set_pitch_shift and get_pitch_shift (specification SpecPitch) *)

\* arguments of set_pitch_shift: every semitone count of the range, some
\* beyond it on each side, and two far away
PitchArgs == (-14..14) \cup {-1000000, 1000000}

InitPitch ==
    /\ status = "ok"
    /\ proc = AudioProcessor_new(48000, 1024).proc
    /\ twin = AudioProcessor_new(48000, 1024).proc
    /\ out = <<>>
    /\ twin_out = <<>>
    /\ call = NoCall
    /\ peak_before = 0
    /\ allocs = 0
    /\ sets_left = MaxPitchSets
    /\ IdlePool
    /\ IdleSolo

NextPitch == \E s \in PitchArgs : SetPitchShift(s)

SpecPitch == InitPitch /\ [][NextPitch]_vars

\* C12: after set_pitch_shift(s), get_pitch_shift returns s clamped to
\* [-12, 12] (s itself when -12 <= s <= 12), and the stored pitch ratio is
\* always in [0.5, 2.0].
C12_PitchRoundTrip ==
    /\ ONE \div 2 <= get_pitch_ratio(proc.pitch_shifter)
    /\ get_pitch_ratio(proc.pitch_shifter) <= 2 * ONE
    /\ call.op = "set_pitch_shift" =>
           get_pitch_shift(proc) =
               (IF call.arg < -12 THEN -12 ELSE IF call.arg > 12 THEN 12 ELSE call.arg)

\* 12 semitones set and read back after another shift had been set
C12_Witness ==
    /\ call.op = "set_pitch_shift"
    /\ call.arg = 12
    /\ get_pitch_shift(proc) = 12
    /\ get_pitch_ratio(proc.pitch_shifter) = 2 * ONE
    /\ sets_left = 0

\* C26: a process_frame call whose frame size is 0 or greater than
\* MAX_FRAME_SIZE changes nothing: frames_processed, the peak level, the pool,
\* the three EQ filter states and every parameter are after the call what
\* they were before it.
C26_InvalidFrameNoOp ==
    [][(call'.op = "process_frame"
        /\ LET n == IF call'.arg <= call'.arg2 THEN call'.arg ELSE call'.arg2
           IN  n = 0 \/ n > MAX_FRAME_SIZE) =>
          /\ proc' = proc
          /\ out' = <<>>]_vars

\* an oversized frame handed to a processor that has processed a frame and
\* holds its peak and its filter memory
C26_Witness ==
    /\ FrameCalled
    /\ CalledFrameSize > MAX_FRAME_SIZE
    /\ out = <<>>
    /\ proc.frames_processed >= 1
    /\ proc.last_peak_level > 0
    /\ proc.equalizer.low_band.state # 0

\* C22: with an input gain of 0.0, every process_frame call with a valid frame
\* size returns an output whose samples are all 0.0, whatever was processed
\* before and whatever the other parameters are.
C22_ZeroGainSilence ==
    (ValidFrameCalled /\ get_input_gain(proc) = 0) =>
        \A i \in 1..Len(out) : out[i] = 0

-----------------------------------------------------------------------------
(* A stand-alone Fader (specification SpecFader) *)

\* arguments of Fader::set_position
FaderPositions ==
    {-2 * ONE, -ONE, -(ONE \div 2), 0, ONE \div 3, ONE \div 2, ONE, 2 * ONE}

\* buffers handed to Fader::process, for either channel
FaderBuffers == { <<>>, <<ONE, ONE>>, <<ONE, -(ONE \div 2), ONE \div 4>> }

\* argument size of Fader::process
FaderSizes == {0, 2, 3}

\* no processor is constructed in the runs of the stand-alone parts
IdleProc ==
    /\ status = "new"
    /\ proc = NoProc
    /\ twin = NoProc
    /\ out = <<>>
    /\ twin_out = <<>>
    /\ call = NoCall
    /\ peak_before = 0
    /\ allocs = 0
    /\ sets_left = 0

InitFader ==
    /\ IdleProc
    /\ IdlePool
    /\ IdleSolo

FaderSetPosition(position) ==
    /\ fd' = Fader_set_position(fd, position)
    /\ fd_call' = [NoFaderCall EXCEPT !.op = "set_position", !.position = position]
    /\ UNCHANGED <<procVars, poolVars, an, shifterVars, vocoderVars, equalizerVars>>

FaderReset ==
    /\ fd' = Fader_reset(fd)
    /\ fd_call' = [NoFaderCall EXCEPT !.op = "reset"]
    /\ UNCHANGED <<procVars, poolVars, an, shifterVars, vocoderVars, equalizerVars>>

FaderProcess(left, right, size) ==
    LET r == Fader_process(fd, left, right, size)
    IN  /\ fd_call' = [op |-> "process", position |-> 0, size |-> size,
                       left |-> left, right |-> right,
                       out_left |-> r.left, out_right |-> r.right]
        /\ UNCHANGED <<fd, procVars, poolVars, an, shifterVars, vocoderVars, equalizerVars>>

NextFader ==
    \/ \E p \in FaderPositions : FaderSetPosition(p)
    \/ FaderReset
    \/ \E l \in FaderBuffers, r \in FaderBuffers, n \in FaderSizes : FaderProcess(l, r, n)

SpecFader == InitFader /\ [][NextFader]_vars

C19_NewFaderGains ==
    fd_call.op = "none" =>
        /\ Fader_get_position(fd) = 0
        /\ get_left_gain(fd) = ONE
        /\ get_right_gain(fd) = 0

\* C20: at every position, process multiplies each left sample by the value
\* get_left_gain reports and each right sample by the value get_right_gain
\* reports.
C20_ProcessAppliesReportedGains ==
    fd_call.op = "process" =>
        LET n == Min(Min(fd_call.size, Len(fd_call.left)), Len(fd_call.right))
        IN  \A i \in 1..n :
                /\ fd_call.out_left[i] = FxMul(fd_call.left[i], get_left_gain(fd))
                /\ fd_call.out_right[i] = FxMul(fd_call.right[i], get_right_gain(fd))

-----------------------------------------------------------------------------
(* A stand-alone PhaseVocoder (specification SpecStretch) *)

\* arguments of PhaseVocoder::set_stretch_ratio: below, inside and above the
\* range, and on either side of 1.0 within 0.001
StretchRatios ==
    {ONE \div 4, ONE \div 2, (3 * ONE) \div 5, (3 * ONE) \div 4, ONE - ONE \div 2000,
     ONE, ONE + ONE \div 2000, (5 * ONE) \div 4, (3 * ONE) \div 2, (7 * ONE) \div 4,
     2 * ONE, 3 * ONE}

\* inputs of PhaseVocoder::process
StretchInputs ==
    { <<>>, <<ONE>>, <<-(ONE \div 2)>>, <<ONE, -(ONE \div 2)>>, <<0, ONE>>,
      <<ONE, 0, ONE \div 2>>, <<ONE \div 4, ONE \div 4, ONE \div 4>>,
      <<ONE, -ONE, ONE, -ONE>>, <<0, ONE \div 4, ONE \div 2, ONE>>,
      <<ONE, ONE \div 2, 0, -(ONE \div 2), -ONE>>,
      <<ONE \div 10, ONE, ONE \div 10, ONE, ONE \div 10, ONE>> }

InitStretch ==
    /\ IdleProc
    /\ IdlePool
    /\ IdleSolo

SetStretchRatio(ratio) ==
    /\ pv' = set_stretch_ratio(pv, ratio)
    /\ pv_call' = [NoVocoderCall EXCEPT !.op = "set_stretch_ratio", !.ratio = ratio]
    /\ UNCHANGED <<procVars, poolVars, faderVars, an, shifterVars, equalizerVars>>

\* process writes no field of the vocoder
StretchProcess(input) ==
    /\ pv_call' = [op |-> "process", ratio |-> 0, input |-> input,
                   output |-> PhaseVocoder_process(pv, input)]
    /\ UNCHANGED <<pv, procVars, poolVars, faderVars, an, shifterVars, equalizerVars>>

NextStretch ==
    \/ \E r \in StretchRatios : SetStretchRatio(r)
    \/ \E input \in StretchInputs : StretchProcess(input)

SpecStretch == InitStretch /\ [][NextStretch]_vars

\* n = ceil(len / ratio): the least n with n * ratio >= len
IsCeilOfQuotient(n, len, ratio) ==
    /\ n >= 0
    /\ n * ratio >= len * ONE
    /\ n > 0 => (n - 1) * ratio < len * ONE

\* C24 as stated: for every input length L and every stretch ratio r in
\* [0.5, 2.0], ratios within 0.001 of 1.0 included, process returns exactly
\* ceil(L / r) samples.
C24_StretchLength ==
    pv_call.op = "process" =>
        IsCeilOfQuotient(Len(pv_call.output), Len(pv_call.input), get_stretch_ratio(pv))

\* C24 amended: for every input length L and every stretch ratio r in
\* [0.5, 2.0], process returns exactly ceil(L / r) samples when r is at least
\* 0.001 away from 1.0, and the L samples of the input, unchanged, when r is
\* within 0.001 of 1.0.
C24_StretchLengthOffUnity ==
    pv_call.op = "process" =>
        /\ get_stretch_ratio(pv) >= ONE \div 2
        /\ get_stretch_ratio(pv) <= 2 * ONE
        /\ IF Abs(get_stretch_ratio(pv) - ONE) < ONE \div 1000
           THEN pv_call.output = pv_call.input
           ELSE IsCeilOfQuotient(Len(pv_call.output), Len(pv_call.input),
                                 get_stretch_ratio(pv))

\* five samples stretched by 0.75 into seven
C24_Witness ==
    /\ pv_call.op = "process"
    /\ get_stretch_ratio(pv) = (3 * ONE) \div 4
    /\ Len(pv_call.input) = 5
    /\ Len(pv_call.output) = 7

-----------------------------------------------------------------------------
(* A stand-alone PitchShifter (specification SpecShift) *)

\* arguments of PitchShifter::set_pitch_ratio
ShiftRatios ==
    {ONE \div 4, ONE \div 2, ONE - ONE \div 2000, ONE, ONE + ONE \div 2000,
     (3 * ONE) \div 2, 2 * ONE, 3 * ONE}

\* buffers handed to PitchShifter::process and, for either channel, to process_stereo
ShiftBuffers ==
    { <<>>, <<ONE>>, <<ONE, -(ONE \div 2)>>, <<ONE, 0, ONE \div 2>>,
      <<0, ONE \div 4, ONE \div 2, ONE>> }

InitShift ==
    /\ IdleProc
    /\ IdlePool
    /\ IdleSolo

SetPitchRatio(ratio) ==
    /\ ps' = set_pitch_ratio(ps, ratio)
    /\ ps_call' = [NoShifterCall EXCEPT !.op = "set_pitch_ratio", !.ratio = ratio]
    /\ UNCHANGED <<procVars, poolVars, faderVars, an, vocoderVars, equalizerVars>>

ShiftProcess(buffer) ==
    /\ ps' = PitchShifter_after_process(ps, buffer)
    /\ ps_call' = [NoShifterCall EXCEPT !.op = "process", !.left = buffer,
                                         !.out_left = PitchShifter_process(ps, buffer)]
    /\ UNCHANGED <<procVars, poolVars, faderVars, an, vocoderVars, equalizerVars>>

ShiftProcessStereo(left, right) ==
    LET r == PitchShifter_process_stereo(ps, left, right)
    IN  /\ ps' = PitchShifter_after_process(PitchShifter_after_process(ps, left), right)
        /\ ps_call' = [op |-> "process_stereo", ratio |-> 0,
                       left |-> left, right |-> right,
                       out_left |-> r.left, out_right |-> r.right]
        /\ UNCHANGED <<procVars, poolVars, faderVars, an, vocoderVars, equalizerVars>>

NextShift ==
    \/ \E r \in ShiftRatios : SetPitchRatio(r)
    \/ \E buffer \in ShiftBuffers : ShiftProcess(buffer)
    \/ \E left \in ShiftBuffers, right \in ShiftBuffers : ShiftProcessStereo(left, right)

SpecShift == InitShift /\ [][NextShift]_vars

\* a shifter just constructed and given the ratio
FreshShifter(ratio) == set_pitch_ratio(PitchShifter_new(48000, 1024), ratio)

\* C25: PitchShifter::process and process_stereo keep every buffer's length,
\* leave the contents unchanged when |pitch_ratio - 1.0| < 0.001, and leave
\* the shifter as it was; what they write into the buffers is what a shifter
\* just constructed and set to the same ratio writes, whatever calls came
\* before.
C25_ShifterStateless ==
    [][ps_call'.op \in {"process", "process_stereo"} =>
          LET c == ps_call'
              fresh == FreshShifter(get_pitch_ratio(ps))
          IN  /\ ps' = ps
              /\ Len(c.out_left) = Len(c.left)
              /\ Len(c.out_right) = Len(c.right)
              /\ Abs(get_pitch_ratio(ps) - ONE) < ONE \div 1000 =>
                     (c.out_left = c.left /\ c.out_right = c.right)
              /\ c.out_left = PitchShifter_process(fresh, c.left)
              /\ c.out_right = PitchShifter_process(fresh, c.right)]_vars

\* a stereo call at ratio 1.5: lengths kept, contents resampled
C25_Witness ==
    /\ ps_call.op = "process_stereo"
    /\ get_pitch_ratio(ps) = (3 * ONE) \div 2
    /\ Len(ps_call.left) = 4
    /\ Len(ps_call.out_left) = 4
    /\ ps_call.out_left # ps_call.left
    /\ Len(ps_call.right) = 3
    /\ Len(ps_call.out_right) = 3
    /\ ps_call.out_right # ps_call.right

-----------------------------------------------------------------------------
(* A stand-alone Equalizer (specification SpecEq) *)

\* arguments of Equalizer::set_low_gain, set_mid_gain and set_high_gain
EqLowArgs == {6}

EqMidArgs == {20}

EqHighArgs == {-20}

\* buffers handed to Equalizer::process
EqBuffers ==
    { <<>>, <<ONE>>, <<ONE, -(ONE \div 2)>>, <<ONE \div 2, ONE, -ONE>> }

InitEq ==
    /\ IdleProc
    /\ IdlePool
    /\ IdleSolo

EqSetterCall(name, db) ==
    /\ eq_call' = [NoEqualizerCall EXCEPT !.op = name, !.db = db, !.calls = eq_call.calls]
    /\ UNCHANGED <<procVars, poolVars, faderVars, an, shifterVars, vocoderVars>>

EqSetLowGain(db) ==
    /\ eq' = set_low_gain(eq, db)
    /\ EqSetterCall("set_low_gain", db)

EqSetMidGain(db) ==
    /\ eq' = set_mid_gain(eq, db)
    /\ EqSetterCall("set_mid_gain", db)

EqSetHighGain(db) ==
    /\ eq' = set_high_gain(eq, db)
    /\ EqSetterCall("set_high_gain", db)

EqReset ==
    /\ eq' = Equalizer_reset(eq)
    /\ EqSetterCall("reset", 0)

EqProcess(buffer) ==
    LET r == Equalizer_process(eq, buffer)
    IN  /\ eq_call.calls < MaxEqCalls
        /\ eq' = r.self
        /\ eq_call' = [op |-> "process", db |-> 0, buffer |-> buffer,
                       output |-> r.buffer, calls |-> eq_call.calls + 1]
        /\ UNCHANGED <<procVars, poolVars, faderVars, an, shifterVars, vocoderVars>>

NextEq ==
    \/ \E db \in EqLowArgs : EqSetLowGain(db)
    \/ \E db \in EqMidArgs : EqSetMidGain(db)
    \/ \E db \in EqHighArgs : EqSetHighGain(db)
    \/ EqReset
    \/ \E buffer \in EqBuffers : EqProcess(buffer)

SpecEq == InitEq /\ [][NextEq]_vars

\* the state samples of the three filters
FilterStates(e) == <<e.low_band.state, e.mid_band.state, e.high_band.state>>

\* C23: set_low_gain, set_mid_gain, set_high_gain and reset change only the
\* stored dB value and the linear gain of their band (reset: of all three
\* bands) and leave the state sample of all three filters as it was; only
\* Equalizer::process changes a filter state.
C23_SettersKeepFilterState ==
    [][LET c == eq_call'
           d == Clamp(c.db, -12, 12)
       IN  /\ c.op # "process" => FilterStates(eq') = FilterStates(eq)
           /\ c.op = "set_low_gain" =>
                  eq' = [eq EXCEPT !.low_gain_db = d, !.low_band.gain = db_to_linear(d)]
           /\ c.op = "set_mid_gain" =>
                  eq' = [eq EXCEPT !.mid_gain_db = d, !.mid_band.gain = db_to_linear(d)]
           /\ c.op = "set_high_gain" =>
                  eq' = [eq EXCEPT !.high_gain_db = d, !.high_band.gain = db_to_linear(d)]
           /\ c.op = "reset" =>
                  eq' = [eq EXCEPT !.low_gain_db = 0, !.low_band.gain = ONE,
                                   !.mid_gain_db = 0, !.mid_band.gain = ONE,
                                   !.high_gain_db = 0, !.high_band.gain = ONE]]_vars

\* the mid band set to +12 dB (from an argument of 20) while all three
\* filters hold a memory of the samples processed before
C23_Witness ==
    /\ eq_call.op = "set_mid_gain"
    /\ eq_call.calls >= 1
    /\ eq.mid_gain_db = 12
    /\ eq.mid_band.gain = db_to_linear(12)
    /\ eq.low_band.state # 0
    /\ eq.mid_band.state # 0
    /\ eq.high_band.state # 0

\* C27: from the same filter states and gains, processing a buffer a and then
\* a buffer b in two calls gives the same output samples and the same final
\* filter states as processing a followed by b in one call; the bands are
\* applied in the order low, mid, high, each on the output of the one before.
C27_ChunkInvariant ==
    [][eq_call'.op = "process" =>
          LET c == eq_call'
              n == Len(c.buffer)
              lo == SimpleFilter_process(eq.low_band, c.buffer, (95 * ONE) \div 100)
              mi == SimpleFilter_process(eq.mid_band, lo.buffer, (90 * ONE) \div 100)
              hi == SimpleFilter_process(eq.high_band, mi.buffer, (85 * ONE) \div 100)
          IN  /\ \A k \in 0..n :
                     LET first  == Equalizer_process(eq, SubSeq(c.buffer, 1, k))
                         second == Equalizer_process(first.self, SubSeq(c.buffer, k + 1, n))
                     IN  /\ first.buffer \o second.buffer = c.output
                         /\ second.self = eq'
              /\ n > 0 => c.output = hi.buffer
              /\ n > 0 => FilterStates(eq') = <<lo.self.state, mi.self.state, hi.self.state>>]_vars

\* a second call, on three samples, by an equalizer whose filters hold a
\* memory of the first call
C27_Witness ==
    /\ eq_call.op = "process"
    /\ eq_call.calls = 2
    /\ Len(eq_call.buffer) = 3
    /\ Len(eq_call.output) = 3
    /\ eq.low_band.state # 0
    /\ eq.low_band.gain # ONE

-----------------------------------------------------------------------------
(* audio_analysis.rs: detect_bpm *)

\* how the build treats a usize overflow: a panic (overflow checks on), or
\* wrapping modulo 2^32 (wasm32) or modulo 2^64
Builds == {"checked", "wrap32", "wrap64"}

\* a / b rounded to the nearest integer, halves away from zero (f32::round of
\* a quotient of non-negative numbers)
RoundDiv(a, b) == (2 * a + b) \div (2 * b)

\* the f32 quotient a / b of two fixed-point numbers
FxDiv(a, b) == (a * ONE + b \div 2) \div b

\* the first loop of normalize_to_octave
RECURSIVE DoubleLoop(_, _)
DoubleLoop(normalized, min_target) ==
    IF normalized < min_target /\ normalized < 200 * ONE
    THEN DoubleLoop(normalized * 2, min_target)
    ELSE normalized

\* the second loop of normalize_to_octave
RECURSIVE HalveLoop(_, _)
HalveLoop(normalized, max_target) ==
    IF normalized > max_target /\ normalized > 60 * ONE
    THEN HalveLoop(normalized \div 2, max_target)
    ELSE normalized

\* a normalize_to_octave that passes its two targets in the wrong order
normalize_to_octave_swapped(bpm, min_target, max_target) ==
    HalveLoop(DoubleLoop(bpm, max_target), min_target)

normalize_to_octave(bpm, min_target, max_target) ==
    HalveLoop(DoubleLoop(bpm, min_target), max_target)

\* 1.0 / (1.0 + diff / 10.0)
Similarity(candidate, other) ==
    FxDiv(ONE, ONE + Abs(candidate - other) \div 10)

\* the inner loop of consensus_bpm from index j on
RECURSIVE ScoreLoop(_, _, _, _)
ScoreLoop(normalized, candidate, j, score) ==
    IF j > Len(normalized)
    THEN score
    ELSE ScoreLoop(normalized, candidate, j + 1,
                   score + Similarity(candidate, normalized[j]))

\* the outer loop of consensus_bpm from index i on
RECURSIVE VoteLoop(_, _, _, _)
VoteLoop(normalized, i, best_bpm, best_score) ==
    IF i > Len(normalized)
    THEN best_bpm
    ELSE LET score == ScoreLoop(normalized, normalized[i], 1, 0)
         IN  IF score > best_score
             THEN VoteLoop(normalized, i + 1, normalized[i], score)
             ELSE VoteLoop(normalized, i + 1, best_bpm, best_score)

\* candidates are whole BPM values; the vote is taken on fixed-point numbers
consensus_bpm(candidates) ==
    IF Len(candidates) = 0 THEN 120
    ELSE IF Len(candidates) = 1 THEN candidates[1]
    ELSE LET normalized == [i \in 1..Len(candidates) |->
                               normalize_to_octave(candidates[i] * ONE, 80 * ONE, 160 * ONE)]
             best_bpm   == VoteLoop(normalized, 1, normalized[1], 0)
         IN  (best_bpm + ONE \div 2) \div ONE

\* The lag select_best_tempo_peak returns, among the lags lo..hi at which
\* find_autocorr_peaks can report a peak: peak 1 stands for the smallest lag,
\* 2 for the largest, 3 for the middle one.
PickLag(peak, lo, hi) ==
    CASE peak = 1 -> lo
      [] peak = 2 -> hi
      [] OTHER    -> (lo + hi) \div 2

\* onset_len is onset_strength.len(); peak is 0 when find_autocorr_peaks finds
\* no qualifying peak in the section
estimate_bpm_from_onsets(onset_len, sample_rate, hop_size, peak) ==
    LET min_lag == (3 * sample_rate) \div (10 * hop_size)
        max_lag == Min(sample_rate \div hop_size, onset_len \div 2)
        \* find_autocorr_peaks looks at the indices 2..(autocorr.len() - 3)
        lo      == min_lag + 2
        hi      == max_lag - 2
    IN  IF min_lag >= max_lag THEN 120
        ELSE IF lo > hi \/ peak = 0 THEN 120
        ELSE Clamp(RoundDiv(60 * sample_rate, hop_size * PickLag(peak, lo, hi)), 60, 200)

\* returns [ok |-> TRUE, bpm] or [ok |-> FALSE, error]
analyze_section_bpm(samples_len, sample_rate, peak, build) ==
    LET fft_size == 2048
        hop_size == 512
        Rest(num_frames, pk) ==
            IF num_frames < 4
            THEN [ok |-> TRUE, bpm |-> 0]
            ELSE [ok |-> TRUE,
                  bpm |-> estimate_bpm_from_onsets(num_frames, sample_rate, hop_size, pk)]
    IN  IF samples_len >= fft_size
        THEN Rest((samples_len - fft_size) \div hop_size, peak)
        \* samples.len() - fft_size underflows
        ELSE CASE build = "checked" ->
                      [ok |-> FALSE, error |-> "attempt to subtract with overflow"]
               \* (2^64 - 2048 + len) / 512 onset values cannot be allocated
               [] build = "wrap64" ->
                      [ok |-> FALSE, error |-> "memory allocation failed"]
               \* (2^32 - 2048 + len) / 512 frames, none of them computed:
               \* the onset curve is all zeros and has no peak
               [] OTHER ->
                      Rest(8388604 + samples_len \div hop_size, 0)

\* the start of section section_idx
\* a skip test that takes the 2 seconds of the input test for its minimum
SectionTooShort_two_seconds(section_len, sample_rate) == section_len < sample_rate * 2

\* end - start < sample_rate as usize * 5
SectionTooShort(section_len, sample_rate) == section_len < sample_rate * 5

\* positions one section length apart, as in the arm of the match that is
\* never taken
SectionPosition_sequential(section_idx, samples_len, section_samples) ==
    section_idx * section_samples

SectionPosition(section_idx, samples_len, section_samples) ==
    CASE section_idx = 0 -> 0
      [] section_idx = 1 -> samples_len \div 4
      [] section_idx = 2 -> samples_len \div 2
      [] section_idx = 3 -> (samples_len * 3) \div 4
      [] section_idx = 4 -> Max(samples_len - section_samples, 0)
      [] OTHER           -> section_idx * section_samples

\* the loop of detect_bpm from section section_idx on; acc holds the
\* candidates pushed and, for each section visited, its bounds and whether
\* it was analysed
RECURSIVE SectionLoop(_, _, _, _, _, _, _)
SectionLoop(samples_len, sample_rate, peaks, build, num_sections, section_idx, acc) ==
    IF section_idx >= num_sections
    THEN acc
    ELSE
    LET section_samples == sample_rate * 10
        start == SectionPosition(section_idx, samples_len, section_samples)
        end   == Min(start + section_samples, samples_len)
        skip  == SectionTooShort(end - start, sample_rate)
        r     == analyze_section_bpm(end - start, sample_rate, peaks[section_idx + 1], build)
        sec   == [start |-> start, end |-> end, analysed |-> ~skip,
                  peak |-> peaks[section_idx + 1]]
    IN  IF skip
        THEN SectionLoop(samples_len, sample_rate, peaks, build, num_sections,
                         section_idx + 1,
                         [acc EXCEPT !.sections = Append(@, sec)])
        ELSE IF ~r.ok
        THEN [acc EXCEPT !.sections = Append(@, sec), !.ok = FALSE, !.error = r.error]
        ELSE SectionLoop(samples_len, sample_rate, peaks, build, num_sections,
                         section_idx + 1,
                         [acc EXCEPT !.sections = Append(@, sec),
                                     !.estimates = Append(@, r.bpm),
                                     !.candidates = IF r.bpm > 0 THEN Append(@, r.bpm)
                                                                 ELSE @])

\* samples is given by its length and, per section, the peak of its onset
\* curve.  Returns [ok, bpm, error] and, for observation, the sections
\* visited, the value analyze_section_bpm returned for each analysed section
\* and the candidates collected.
detect_bpm(samples_len, sample_rate, peaks, build) ==
    LET none == [ok |-> TRUE, bpm |-> 120, error |-> "", short |-> FALSE,
                 sections |-> <<>>, estimates |-> <<>>, candidates |-> <<>>]
    IN  IF samples_len < sample_rate * 2
        THEN [none EXCEPT !.short = TRUE]
        ELSE IF sample_rate * 10 = 0
        THEN [none EXCEPT !.ok = FALSE, !.bpm = 0,
                          !.error = "attempt to divide by zero"]
        ELSE LET num_sections == Max(Min(samples_len \div (sample_rate * 10), 5), 1)
                 acc == SectionLoop(samples_len, sample_rate, peaks, build,
                                    num_sections, 0, none)
             IN  IF ~acc.ok THEN [acc EXCEPT !.bpm = 0]
                 ELSE IF Len(acc.candidates) = 0 THEN [acc EXCEPT !.bpm = 120]
                 ELSE [acc EXCEPT !.bpm = consensus_bpm(acc.candidates)]

-----------------------------------------------------------------------------
(* audio_analysis.rs: detect_key.  An f32 that can be not-a-number is a record:
   nan tells whether it is, v is its value in units of 1/ONE otherwise.  The
   samples are given by their number and by the set of 1/128ths of the
   analysis window ("chunks") that hold signal after windowing; a chunk with
   signal has the root mean square 1/2, any other 0. *)

NaN == [nan |-> TRUE, v |-> 0]

F32(v) == [nan |-> FALSE, v |-> v]

\* a + b
F32Add(a, b) == IF a.nan \/ b.nan THEN NaN ELSE F32(a.v + b.v)

\* a > b, which is false when either is not a number
F32Gt(a, b) == ~a.nan /\ ~b.nan /\ a.v > b.v

key_names == <<"C", "C#", "D", "D#", "E", "F", "F#", "G", "G#", "A", "A#", "B">>

\* The frequencies, in 1/100 Hz, at which (12 * log2(freq / 440) + 69 + 0.5)
\* as usize steps to 40, 41, ..., 108: 440 Hz * 2^((n - 69.5) / 12).
NoteEdges ==
    <<
       8006, 8482, 8987, 9521, 10087, 10687, 11322, 11996, 12709, 13465,
       14265, 15113, 16012, 16964, 17973, 19042, 20174, 21374, 22645, 23991,
       25418, 26929, 28530, 30227, 32024, 33929, 35946, 38084, 40348, 42747,
       45289, 47982, 50836, 53858, 57061, 60454, 64049, 67857, 71892, 76167,
       80696, 85495, 90579, 95965, 101671, 107717, 114122, 120908, 128097, 135715,
       143785, 152334, 161393, 170990, 181157, 191929, 203342, 215433, 228244, 241816,
       256195, 271429, 287569, 304669, 322785, 341979, 362314, 383859, 406684
    >>

\* ((midi_note + 0.5) as usize) of the frequency num / den Hz, 80 <= freq <= 4000
MidiNote(num, den) ==
    39 + Cardinality({i \in 1..Len(NoteEdges) : NoteEdges[i] * den <= num * 100})

\* (energy / samples_per_bin as f32).sqrt() of one chunk: 0.0 / 0.0 when the
\* chunk holds no sample
BinEnergy(bin_idx, samples_per_bin, loud) ==
    IF samples_per_bin = 0 THEN NaN
    ELSE IF bin_idx \in loud THEN F32(ONE \div 2) ELSE F32(0)

\* freq < 80.0 || freq > 4000.0 for freq = bin_idx * sample_rate / fft_size,
\* which is 0.0 / 0.0, and neither below nor above, when fft_size is 0
BinSkipped(bin_idx, fft_size, sample_rate) ==
    /\ fft_size # 0
    /\ \/ bin_idx * sample_rate < 80 * fft_size
       \/ bin_idx * sample_rate > 4000 * fft_size

\* ((midi_note + 0.5) as usize) % 12, the cast of a not-a-number being 0
ChromaticNote(bin_idx, fft_size, sample_rate) ==
    IF fft_size = 0 THEN 0
    ELSE MidiNote(bin_idx * sample_rate, fft_size) % 12

\* for bin_idx in 0..bin_energy.len(): the energy of each bin whose frequency
\* is in 80..4000 Hz is added to the bin of its note; a sum with a
\* not-a-number term is not a number
ChromaLoop(fft_size, sample_rate, loud) ==
    [n \in 1..12 |->
        LET terms == {bin_idx \in 0..127 :
                        /\ ~BinSkipped(bin_idx, fft_size, sample_rate)
                        /\ ChromaticNote(bin_idx, fft_size, sample_rate) = n - 1}
        IN  IF \E bin_idx \in terms : BinEnergy(bin_idx, fft_size \div 128, loud).nan
            THEN NaN
            ELSE F32(Cardinality(terms \cap loud) * (ONE \div 2))]

\* Normalize: the fold with f32::max passes over the energies that are not
\* numbers and leaves NEG_INFINITY when there is no other; the energies are
\* divided by the maximum when it is positive
NormalizeLoop(chromatic_energy) ==
    LET positive == {i \in 1..12 : F32Gt(chromatic_energy[i], F32(0))}
    IN  IF positive # {}
        THEN LET max_energy ==
                     chromatic_energy[CHOOSE i \in positive : \A j \in positive :
                                         chromatic_energy[i].v >= chromatic_energy[j].v].v
             IN  [i \in 1..12 |->
                     IF chromatic_energy[i].nan THEN NaN
                     ELSE F32((chromatic_energy[i].v * ONE + max_energy \div 2)
                              \div max_energy)]
        ELSE chromatic_energy

\* the twelve chromatic energies, indexed 1..12 for the notes 0..11
compute_chromatic_bins(samples_len, sample_rate, loud) ==
    CHOOSE bins \in {NormalizeLoop(chromatic_energy) :
                        chromatic_energy \in
                            {ChromaLoop(Min(4096, samples_len), sample_rate, loud)}} :
        TRUE

\* bins.iter().enumerate().max_by(|a, b| a.1.partial_cmp(b.1).unwrap()): every
\* element is compared, a comparison with a not-a-number is None, and of
\* several equal maxima the last one is returned
MaxBy(bins) ==
    IF \E i \in 1..12 : bins[i].nan
    THEN [ok |-> FALSE, max_bin |-> 0]
    ELSE LET top == {i \in 1..12 : \A j \in 1..12 : bins[i].v >= bins[j].v}
         IN  [ok |-> TRUE, max_bin |-> (CHOOSE i \in top : \A j \in top : j <= i) - 1]

\* detect_key from the chromatic bins on
KeyOfBins(bins) ==
    LET found == MaxBy(bins)
        max_bin == found.max_bin
        third == bins[((max_bin + 3) % 12) + 1]
        is_minor == F32Gt(bins[max_bin + 1],
                          IF third.nan THEN NaN ELSE F32(FxMul(third.v, 12000)))
    IN  IF ~found.ok
        THEN [ok |-> FALSE, key |-> "",
              error |-> "called Option::unwrap() on a None value"]
        ELSE [ok |-> TRUE,
              key |-> key_names[max_bin + 1] \o " " \o
                      (IF is_minor THEN "Minor" ELSE "Major"),
              error |-> ""]

detect_key(samples_len, sample_rate, loud) ==
    IF samples_len = 0
    THEN [ok |-> TRUE, key |-> "A Minor", error |-> ""]
    ELSE LET analysis_samples == Min(samples_len, sample_rate * 3)
         IN  CHOOSE result \in
                 {KeyOfBins(bins) :
                     bins \in {compute_chromatic_bins(analysis_samples,
                                                      sample_rate, loud)}} : TRUE

-----------------------------------------------------------------------------
(* Calls of detect_bpm (specification SpecBpm) *)

\* argument sample_rate of detect_bpm
BpmSampleRates == {0, 1, 100, 409, 410, 8000, 48000}

\* durations of the samples handed to detect_bpm, in tenths of a second
BpmDurations == {0, 19, 20, 49, 50, 100, 199, 200, 300, 400, 500, 600}

\* samples beyond the duration
BpmExtraSamples == {0, 1}

\* the best peak of each of the five sections: 0 none, 1 at the smallest lag,
\* 2 at the largest lag, 3 in the middle
BpmPeaks ==
    { <<0, 0, 0, 0, 0>>, <<1, 1, 1, 1, 1>>, <<2, 2, 2, 2, 2>>, <<3, 3, 3, 3, 3>>,
      <<3, 0, 0, 0, 0>>, <<0, 1, 2, 3, 0>>, <<1, 2, 3, 0, 1>>, <<2, 0, 1, 3, 3>> }

InitAnalysis ==
    /\ IdleProc
    /\ IdlePool
    /\ IdleSolo

DetectBpm(samples_len, sample_rate, peaks, build) ==
    /\ an.op = "none"
    /\ an' = [op |-> "detect_bpm", samples_len |-> samples_len,
              sample_rate |-> sample_rate, peaks |-> peaks, build |-> build,
              result |-> detect_bpm(samples_len, sample_rate, peaks, build)]
    /\ UNCHANGED <<procVars, poolVars, faderVars, shifterVars, vocoderVars, equalizerVars>>

NextBpm ==
    \E sr \in BpmSampleRates, d \in BpmDurations, x \in BpmExtraSamples,
       peaks \in BpmPeaks, build \in Builds :
        DetectBpm((sr * d) \div 10 + x, sr, peaks, build)

SpecBpm == InitAnalysis /\ [][NextBpm]_vars

BpmCalled == an.op = "detect_bpm"

\* C13: detect_bpm returns an integer for every sample array and every sample
\* rate, without a division by zero, an index out of range or an arithmetic
\* underflow, and it returns 120 when the input holds less than 2 seconds.
C13_DetectBpmNeverFails ==
    BpmCalled =>
        /\ an.result.ok
        /\ an.samples_len < 2 * an.sample_rate => an.result.bpm = 120

\* C15: every value detect_bpm returns is in [60, 200], on the default path,
\* with a single candidate and after the consensus of several.
C15_BpmRange ==
    (BpmCalled /\ an.result.ok) =>
        /\ 60 <= an.result.bpm
        /\ an.result.bpm <= 200

\* a consensus of several candidates, one of them above 160, that returned a
\* value halved into the octave band
C15_Witness ==
    /\ BpmCalled
    /\ an.result.ok
    /\ Len(an.result.candidates) >= 3
    /\ \E i \in 1..Len(an.result.candidates) : an.result.candidates[i] > 160
    /\ an.result.bpm < 100
    /\ an.result.bpm >= 80

\* C29: for every input of at least 2 but less than 5 seconds at the given
\* sample rate, detect_bpm returns 120 whatever the samples are: its only
\* section is shorter than 5 seconds and skipped, and no candidate is
\* collected.
C29_ShortInputDefault ==
    (/\ BpmCalled
     /\ an.samples_len >= 2 * an.sample_rate
     /\ an.samples_len < 5 * an.sample_rate) =>
        /\ an.result.ok
        /\ an.result.bpm = 120
        /\ Len(an.result.sections) = 1
        /\ ~an.result.sections[1].analysed
        /\ an.result.estimates = <<>>
        /\ an.result.candidates = <<>>

\* 4.9 seconds at 48 kHz whose onset curve would have a peak at the
\* smallest lag
C29_Witness ==
    /\ BpmCalled
    /\ an.sample_rate = 48000
    /\ an.samples_len = 235200
    /\ an.peaks[1] = 1
    /\ an.result.bpm = 120
    /\ ~an.result.short

\* the start offset of section i of a call (i from 1)
ExpectedStart(i, samples_len, sample_rate) ==
    CASE i = 1 -> 0
      [] i = 2 -> samples_len \div 4
      [] i = 3 -> samples_len \div 2
      [] i = 4 -> (3 * samples_len) \div 4
      [] i = 5 -> samples_len - 10 * sample_rate

\* C30: for every sample rate of at least 1 Hz and every input of at least 2
\* seconds, there are 1 to 5 sections, each a valid slice of the input: it
\* starts at 0, len/4, len/2, 3*len/4 or len minus one section length,
\* ends at min(start + 10 seconds, len), with 0 <= start <= end <= len, and
\* no section shorter than 5 seconds is analysed.
C30_SectionsAreSlices ==
    (BpmCalled /\ an.sample_rate >= 1 /\ an.samples_len >= 2 * an.sample_rate) =>
        LET secs == an.result.sections
            len  == an.samples_len
        IN  /\ Len(secs) >= 1
            /\ Len(secs) <= 5
            /\ an.result.ok =>
                   Len(secs) = Max(Min(len \div (10 * an.sample_rate), 5), 1)
            /\ \A i \in 1..Len(secs) :
                   /\ secs[i].start = ExpectedStart(i, len, an.sample_rate)
                   /\ secs[i].end = Min(secs[i].start + 10 * an.sample_rate, len)
                   /\ 0 <= secs[i].start
                   /\ secs[i].start <= secs[i].end
                   /\ secs[i].end <= len
                   /\ secs[i].analysed =>
                          secs[i].end - secs[i].start >= 5 * an.sample_rate

\* a minute at 48 kHz: five sections, all analysed, the last one ending with
\* the input
C30_Witness ==
    /\ BpmCalled
    /\ an.sample_rate = 48000
    /\ an.samples_len = 2880000
    /\ Len(an.result.sections) = 5
    /\ \A i \in 1..5 : an.result.sections[i].analysed
    /\ an.result.sections[5].start = 2400000
    /\ an.result.sections[5].end = 2880000

\* C16: whenever at least one section yields a candidate (1 to 5 of them), the
\* value detect_bpm returns is in the octave band [80, 160].
C16_OctaveBand ==
    (BpmCalled /\ an.result.ok /\ Len(an.result.candidates) >= 1) =>
        /\ 80 <= an.result.bpm
        /\ an.result.bpm <= 160

\* a section that was analysed and produced a tempo estimate: it has at least
\* 4 frames, a lag range in which a peak can lie, and a qualifying peak
SectionSucceeded(sec, sample_rate) ==
    LET len     == sec.end - sec.start
        frames  == (len - 2048) \div 512
        min_lag == (3 * sample_rate) \div 5120
        max_lag == Min(sample_rate \div 512, frames \div 2)
    IN  /\ sec.analysed
        /\ len >= 2048
        /\ frames >= 4
        /\ min_lag + 2 <= max_lag - 2
        /\ sec.peak # 0

\* C17: a section whose analysis produces no tempo estimate contributes no
\* candidate: the candidates are exactly the estimates of the sections that
\* succeeded, and 120 is returned only if there is none or the vote among
\* them selects 120.
C17_FailedSectionsSkipped ==
    (BpmCalled /\ an.result.ok) =>
        LET good == SelectSeq(an.result.sections,
                              LAMBDA sec : SectionSucceeded(sec, an.sample_rate))
            votes == [i \in 1..Len(good) |->
                         analyze_section_bpm(good[i].end - good[i].start,
                                             an.sample_rate, good[i].peak,
                                             an.build).bpm]
        IN  /\ an.result.candidates = votes
            /\ an.result.bpm = 120 => (votes = <<>> \/ consensus_bpm(votes) = 120)

-----------------------------------------------------------------------------
(* Calls of detect_key (specification SpecKey) *)

\* argument sample_rate of detect_key
KeySampleRates == {0, 100, 8000, 44100, 48000}

\* number of samples handed to detect_key
KeyLengths == {0, 1, 2, 11, 12, 100, 127, 128, 129, 300, 301, 4095, 4096, 5000}

\* the chunks of the analysis window that hold signal
KeyLoud == { {}, 0..127, {5}, {40}, {1, 2, 3}, {9, 12} }

DetectKey(samples_len, sample_rate, loud) ==
    /\ an.op = "none"
    /\ an' = [op |-> "detect_key", samples_len |-> samples_len,
              sample_rate |-> sample_rate, loud |-> loud,
              result |-> detect_key(samples_len, sample_rate, loud)]
    /\ UNCHANGED <<procVars, poolVars, faderVars, shifterVars, vocoderVars, equalizerVars>>

NextKey ==
    \E samples_len \in KeyLengths, sample_rate \in KeySampleRates, loud \in KeyLoud :
        DetectKey(samples_len, sample_rate, loud)

SpecKey == InitAnalysis /\ [][NextKey]_vars

KeyCalled == an.op = "detect_key"

\* C14: detect_key returns "A Minor" on empty input and, on every non-empty
\* input of any length, a string "<pitch class> <Major|Minor>", never an
\* error caused by a bin energy that is not a number.
C14_DetectKeyNeverFails ==
    KeyCalled =>
        /\ an.result.ok
        /\ an.samples_len = 0 => an.result.key = "A Minor"
        /\ \E i \in 1..12, mode \in {"Major", "Minor"} :
               an.result.key = key_names[i] \o " " \o mode

=============================================================================
